---- MODULE Spec2Model ----
(***************************************************************************)
(* Model of the per-tenant stock store of Accounting-and-Inventory         *)
(* (src/stok.py): the SQLite file of one tenant and the Flask handlers     *)
(* that read and write it, and the accounts (src/app.py) that give every   *)
(* tenant a file of its own.  Strings are sequences of one-character       *)
(* strings, so that strip / lower / sanitising / parsing are computed.     *)
(***************************************************************************)
EXTENDS Integers, Sequences, FiniteSets, TLC

VARIABLES db, issued, users, stores, session, actor, pending

\* the accounts, the files of stock_dbs/ and the sessions of the browsers
tenancy == <<users, stores, session, actor>>

vars == <<db, issued, tenancy, pending>>

(***************************************************************************)
(* Bounds of the model.                                                    *)
(***************************************************************************)
MaxProductSeq == 2
MaxInventorySeq == 3
MaxCatalogProducts == 1
MaxListingProducts == 2
MaxListingEntries == 3
MaxTenantProducts == 1
MaxRaceProducts == 3

(***************************************************************************)
(* Python string primitives.                                               *)
(***************************************************************************)
UpperLetters == <<"A","B","C","D","E","F","G","H","I","J","K","L","M",
                  "N","O","P","Q","R","S","T","U","V","W","X","Y","Z">>
LowerLetters == <<"a","b","c","d","e","f","g","h","i","j","k","l","m",
                  "n","o","p","q","r","s","t","u","v","w","x","y","z">>
Digits == <<"0","1","2","3","4","5","6","7","8","9">>

Range(s) == {s[i] : i \in DOMAIN s}

IndexOf(s, c) == IF \E i \in DOMAIN s : s[i] = c
                 THEN CHOOSE i \in DOMAIN s : s[i] = c
                 ELSE 0

IsSpace(c) == c = " "
DigitSet == Range(Digits)
AlnumSet == Range(UpperLetters) \cup Range(LowerLetters) \cup Range(Digits)

IsDigit(c) == c \in DigitSet
IsAlnum(c) == c \in AlnumSet

LowerMap == [c \in Range(UpperLetters) |-> LowerLetters[IndexOf(UpperLetters, c)]]
UpperSet == Range(UpperLetters)

LowerChar(c) == IF c \in UpperSet THEN LowerMap[c] ELSE c

\* str.lower()
Lower(s) == [i \in DOMAIN s |-> LowerChar(s[i])]

RECURSIVE LStrip(_)
LStrip(s) == IF s # <<>> /\ IsSpace(Head(s)) THEN LStrip(Tail(s)) ELSE s

RECURSIVE RStrip(_)
RStrip(s) == IF s # <<>> /\ IsSpace(s[Len(s)])
             THEN RStrip(SubSeq(s, 1, Len(s) - 1))
             ELSE s

\* str.strip()
Strip(s) == RStrip(LStrip(s))

RECURSIVE KeepAlnumOrSpace(_)
\* ''.join(c for c in s if c.isalnum() or c == ' ')
KeepAlnumOrSpace(s) ==
    IF s = <<>> THEN <<>>
    ELSE IF IsAlnum(Head(s)) \/ Head(s) = " "
         THEN <<Head(s)>> \o KeepAlnumOrSpace(Tail(s))
         ELSE KeepAlnumOrSpace(Tail(s))

\* str.replace(old, new) for a one-character old
ReplaceChar(s, old, new) == [i \in DOMAIN s |-> IF s[i] = old THEN new ELSE s[i]]

DigitMap == [c \in Range(Digits) |-> IndexOf(Digits, c) - 1]

RECURSIVE DigitsValue(_, _)
DigitsValue(s, acc) ==
    IF s = <<>> THEN acc
    ELSE DigitsValue(Tail(s), 10 * acc + DigitMap[Head(s)])

\* int(s): surrounding whitespace, an optional sign, then decimal digits.
ParseInt(s0) ==
    LET s    == Strip(s0)
        neg  == s # <<>> /\ Head(s) = "-"
        body == IF s # <<>> /\ Head(s) \in {"-", "+"} THEN Tail(s) ELSE s
        ok   == body # <<>> /\ \A i \in DOMAIN body : IsDigit(body[i])
    IN  [ok  |-> ok,
         val |-> IF ~ok THEN 0
                 ELSE IF neg THEN 0 - DigitsValue(body, 0) ELSE DigitsValue(body, 0)]

RECURSIVE NatToStr(_)
NatToStr(n) == IF n < 10 THEN <<Digits[n + 1]>>
               ELSE NatToStr(n \div 10) \o <<Digits[(n % 10) + 1]>>

\* str(n) of an int
IntToStr(n) == IF n < 0 THEN <<"-">> \o NatToStr(0 - n) ELSE NatToStr(n)

(***************************************************************************)
(* More string primitives: split, strip of a character set, replace.       *)
(***************************************************************************)
RECURSIVE SplitAcc(_, _, _)
SplitAcc(s, sep, cur) ==
    IF s = <<>> THEN <<cur>>
    ELSE IF Head(s) = sep THEN <<cur>> \o SplitAcc(Tail(s), sep, <<>>)
         ELSE SplitAcc(Tail(s), sep, Append(cur, Head(s)))

\* s.split(sep) for a one-character separator
Split(s, sep) == SplitAcc(s, sep, <<>>)

RECURSIVE LStripChars(_, _)
LStripChars(s, cs) ==
    IF s # <<>> /\ Head(s) \in cs THEN LStripChars(Tail(s), cs) ELSE s

RECURSIVE RStripChars(_, _)
RStripChars(s, cs) ==
    IF s # <<>> /\ s[Len(s)] \in cs
    THEN RStripChars(SubSeq(s, 1, Len(s) - 1), cs)
    ELSE s

\* s.strip(chars)
StripChars(s, cs) == RStripChars(LStripChars(s, cs), cs)

\* s.replace(c, '')
RemoveChar(s, c) == SelectSeq(s, LAMBDA x : x # c)

RECURSIVE ReplaceEscapedQuote(_)
\* s.replace('\\"', '"'): a backslash followed by a double quote becomes
\* the double quote
ReplaceEscapedQuote(s) ==
    IF Len(s) < 2 THEN s
    ELSE IF s[1] = "\\" /\ s[2] = "\""
         THEN <<"\"">> \o ReplaceEscapedQuote(SubSeq(s, 3, Len(s)))
         ELSE <<s[1]>> \o ReplaceEscapedQuote(Tail(s))

RECURSIVE Flatten(_)
Flatten(ss) == IF ss = <<>> THEN <<>> ELSE Head(ss) \o Flatten(Tail(ss))

(***************************************************************************)
(* json.dumps of a list of strings and json.loads.                         *)
(***************************************************************************)
RECURSIVE JsonEscape(_)
JsonEscape(s) ==
    IF s = <<>> THEN <<>>
    ELSE IF Head(s) \in {"\"", "\\"}
         THEN <<"\\", Head(s)>> \o JsonEscape(Tail(s))
         ELSE <<Head(s)>> \o JsonEscape(Tail(s))

JsonString(s) == <<"\"">> \o JsonEscape(s) \o <<"\"">>

RECURSIVE JsonJoin(_)
JsonJoin(items) ==
    IF items = <<>> THEN <<>>
    ELSE IF Len(items) = 1 THEN JsonString(items[1])
         ELSE JsonString(items[1]) \o <<",", " ">> \o JsonJoin(Tail(items))

\* json.dumps(list of str)
JsonDumps(items) == <<"[">> \o JsonJoin(items) \o <<"]">>

\* a decoded JSON value that is not a string (a number, a literal, a nested
\* array): it is equal to no form value
NonString == <<"<non-string>">>

RECURSIVE SkipSpace(_, _)
SkipSpace(s, i) == IF i <= Len(s) /\ IsSpace(s[i]) THEN SkipSpace(s, i + 1) ELSE i

\* the characters a backslash may introduce in a JSON string (\uXXXX aside)
JsonEscapes == {"\"", "\\", "/", "b", "f", "n", "r", "t"}

\* the character an escape stands for (a backspace has no TLA+ literal)
JsonUnescape(c) ==
    CASE c = "b" -> "<BS>"
      [] c = "f" -> "\f"
      [] c = "n" -> "\n"
      [] c = "r" -> "\r"
      [] c = "t" -> "\t"
      [] OTHER   -> c

RECURSIVE JsonScanString(_, _, _)
\* s[i..] after the opening quote: the decoded string and the position after
\* the closing quote
JsonScanString(s, i, acc) ==
    IF i > Len(s) THEN [ok |-> FALSE, pos |-> i, val |-> acc]
    ELSE IF s[i] = "\"" THEN [ok |-> TRUE, pos |-> i + 1, val |-> acc]
    ELSE IF s[i] = "\\"
         THEN IF i + 1 <= Len(s) /\ s[i + 1] \in JsonEscapes
              THEN JsonScanString(s, i + 2, Append(acc, JsonUnescape(s[i + 1])))
              ELSE [ok |-> FALSE, pos |-> i, val |-> acc]
    ELSE JsonScanString(s, i + 1, Append(acc, s[i]))

RECURSIVE JsonScanDigits(_, _)
JsonScanDigits(s, i) ==
    IF i <= Len(s) /\ IsDigit(s[i]) THEN JsonScanDigits(s, i + 1) ELSE i

JsonLiterals == {<<"t","r","u","e">>, <<"f","a","l","s","e">>, <<"n","u","l","l">>}

StartsWithAt(s, i, w) == i + Len(w) - 1 <= Len(s) /\ SubSeq(s, i, i + Len(w) - 1) = w

RECURSIVE JsonValue(_, _)
RECURSIVE JsonElements(_, _, _)

\* one JSON value at s[i..] (leading whitespace skipped): kind is "str",
\* "list" or "other"; str holds a string, items the elements of a list
JsonValue(s, i0) ==
    LET i    == SkipSpace(s, i0)
        fail == [ok |-> FALSE, pos |-> i, kind |-> "other", str |-> <<>>, items |-> <<>>]
    IN  IF i > Len(s) THEN fail
        ELSE IF s[i] = "\""
        THEN LET r == JsonScanString(s, i + 1, <<>>)
             IN  [ok |-> r.ok, pos |-> r.pos, kind |-> "str",
                  str |-> r.val, items |-> <<>>]
        ELSE IF s[i] = "["
        THEN LET j == SkipSpace(s, i + 1)
             IN  IF j <= Len(s) /\ s[j] = "]"
                 THEN [ok |-> TRUE, pos |-> j + 1, kind |-> "list",
                       str |-> <<>>, items |-> <<>>]
                 ELSE JsonElements(s, i + 1, <<>>)
        ELSE IF \E w \in JsonLiterals : StartsWithAt(s, i, w)
        THEN LET w == CHOOSE w \in JsonLiterals : StartsWithAt(s, i, w)
             IN  [ok |-> TRUE, pos |-> i + Len(w), kind |-> "other",
                  str |-> <<>>, items |-> <<>>]
        ELSE LET d == IF s[i] = "-" THEN i + 1 ELSE i
                 e == JsonScanDigits(s, d)
             IN  IF e > d /\ (e = d + 1 \/ s[d] # "0")
                 THEN [ok |-> TRUE, pos |-> e, kind |-> "other",
                       str |-> <<>>, items |-> <<>>]
                 ELSE fail

\* the elements of an array from s[i..] on, up to the closing bracket
JsonElements(s, i, acc) ==
    LET v    == JsonValue(s, i)
        item == IF v.kind = "str" THEN v.str ELSE NonString
        j    == SkipSpace(s, v.pos)
        fail == [ok |-> FALSE, pos |-> j, kind |-> "list", str |-> <<>>, items |-> <<>>]
    IN  IF ~v.ok \/ j > Len(s) THEN fail
        ELSE IF s[j] = "," THEN JsonElements(s, j + 1, Append(acc, item))
        ELSE IF s[j] = "]"
        THEN [ok |-> TRUE, pos |-> j + 1, kind |-> "list", str |-> <<>>,
              items |-> Append(acc, item)]
        ELSE fail

\* json.loads(s): ok is FALSE where it raises JSONDecodeError
JsonLoads(s) ==
    LET v == JsonValue(s, 1)
    IN  IF v.ok /\ SkipSpace(s, v.pos) > Len(s)
        THEN [ok |-> TRUE, islist |-> v.kind = "list", items |-> v.items]
        ELSE [ok |-> FALSE, islist |-> FALSE, items |-> <<>>]

(***************************************************************************)
(* Decoding of stock_columns.options.  The column holds NULL or a text;    *)
(* opt is a stored value (VNull or VText).                                 *)
(***************************************************************************)
QuoteChars == {"'", "\""}

\* opt.strip().strip("'\"").replace('\\"', '"')
CleanOption(opt) == ReplaceEscapedQuote(StripChars(Strip(opt), QuoteChars))

\* the decoder of stok_listesi
ListingOptions(opt) ==
    IF opt.k # "text" \/ opt.s = <<>> THEN <<>>
    ELSE LET str    == Strip(opt.s)
             loaded == JsonLoads(str)
             cleaned == Strip(RemoveChar(RemoveChar(str, "["), "]"))
             toks   == Split(cleaned, ",")
         IN  IF loaded.ok
             THEN IF loaded.islist THEN loaded.items ELSE <<>>
             ELSE IF cleaned # <<>>
                  THEN SelectSeq([i \in DOMAIN toks |-> CleanOption(toks[i])],
                                 LAMBDA o : o # <<>>)
                  ELSE <<>>

\* the decoder of add_product and update_product
FormOptions(opt) ==
    IF opt.k # "text" \/ opt.s = <<>> THEN <<>>
    ELSE LET loaded  == JsonLoads(opt.s)
             cleaned == Strip(RemoveChar(RemoveChar(Strip(opt.s), "["), "]"))
             toks    == SelectSeq(Split(cleaned, ","), LAMBDA o : Strip(o) # <<>>)
         IN  IF loaded.ok
             THEN IF loaded.islist THEN loaded.items ELSE <<>>
             ELSE [i \in DOMAIN toks |-> CleanOption(toks[i])]

\* [opt.strip() for opt in options_raw.split(',') if opt.strip()]
ParseOptionsInput(options_raw) ==
    LET toks == Split(options_raw, ",")
    IN  SelectSeq([i \in DOMAIN toks |-> Strip(toks[i])], LAMBDA o : o # <<>>)

(***************************************************************************)
(* SQLite values.  Every stored value is a record of the same shape: an    *)
(* integer, a real (only integer-valued reals occur, n holds the value), a *)
(* text or NULL.                                                           *)
(***************************************************************************)
VInt(n)  == [k |-> "int",  n |-> n, s |-> <<>>]
VReal(n) == [k |-> "real", n |-> n, s |-> <<>>]
VText(s) == [k |-> "text", n |-> 0, s |-> s]
VNull    == [k |-> "null", n |-> 0, s |-> <<>>]

\* float(s): a signed decimal integer literal is the only form the inputs
\* of this model contain, so float() accepts exactly what int() accepts.
ParseFloat(s) == ParseInt(s)

\* repr of an integer-valued float, as SQLite renders a REAL into TEXT
RealToStr(n) == IntToStr(n) \o <<".", "0">>

\* Column affinity applied by SQLite when a bound value is stored.
ApplyAffinity(aff, v) ==
    CASE aff = "INTEGER" ->
            IF v.k = "text" /\ ParseInt(v.s).ok
            THEN VInt(ParseInt(v.s).val)
            ELSE IF v.k = "real" THEN VInt(v.n) ELSE v
      [] aff = "REAL" ->
            IF v.k = "text" /\ ParseFloat(v.s).ok
            THEN VReal(ParseFloat(v.s).val)
            ELSE IF v.k = "int" THEN VReal(v.n) ELSE v
      [] OTHER ->
            IF v.k = "int" THEN VText(IntToStr(v.n))
            ELSE IF v.k = "real" THEN VText(RealToStr(v.n)) ELSE v

(***************************************************************************)
(* Schema of the tenant store.                                             *)
(***************************************************************************)
ID              == <<"i","d">>
USER_PRODUCT_ID == <<"u","s","e","r","_","p","r","o","d","u","c","t","_","i","d">>
NAME            == <<"n","a","m","e">>
PRICE           == <<"p","r","i","c","e">>

\* the literal ['id', 'name', 'price', 'user_product_id'] of the handlers
ReservedNames == {ID, NAME, PRICE, USER_PRODUCT_ID}

\* CREATE TABLE products: the four base columns, in this order
BaseColumns == <<ID, USER_PRODUCT_ID, NAME, PRICE>>

\* declared type of the i-th column of products: the base columns as created,
\* every later column is added as TEXT
ColumnAffinity(i) ==
    IF i <= 2 THEN "INTEGER" ELSE IF i = 4 THEN "REAL" ELSE "TEXT"

\* sqlite3.connect() without PRAGMA foreign_keys = ON: SQLite does not
\* enforce (or cascade) foreign keys on this connection.
ForeignKeysEnabled == FALSE

\* the user of the session; each tenant's store has one user
SessionUserId == 1

\* position of the column an SQL statement names (identifiers are matched
\* case-insensitively), 0 when the table has no such column
ColIndex(cols, name) ==
    IF \E i \in DOMAIN cols : Lower(cols[i]) = Lower(name)
    THEN CHOOSE i \in DOMAIN cols : Lower(cols[i]) = Lower(name)
    ELSE 0

\* the store right after init_stock_table on a new file
EmptyStore ==
    [product_columns        |-> BaseColumns,
     products               |-> {},
     inventory              |-> {},
     stock_columns          |-> {},
     user_column_visibility |-> {},
     seq_products           |-> 0,
     seq_inventory          |-> 0]

Result(d, st) == [db |-> d, status |-> st]

\* rowids of the products table (the INTEGER PRIMARY KEY is the first column)
ProductRowids(d) == {r[1].n : r \in d.products}

(***************************************************************************)
(* Inventory ledger.                                                       *)
(***************************************************************************)
\* a table declared without UNIQUE(product_id, location)
InventoryUniqueConflict_Unconstrained(inv, row) == FALSE

\* UNIQUE(product_id, location): another row already holds the pair
InventoryUniqueConflict(inv, row) ==
    \E r \in inv : /\ r.id # row.id
                   /\ r.product_id = row.product_id
                   /\ r.location = row.location

\* FOREIGN KEY (product_id) REFERENCES products(id), when enforced
InventoryForeignKeyViolation(d, row) ==
    ForeignKeysEnabled /\ row.product_id \notin ProductRowids(d)

\* the UPDATE going through although the target pair is occupied
UpdateInventoryRow_Merging(d, inventory_id, product_id, quantity, location) ==
    LET hit  == {r \in d.inventory : r.id = inventory_id /\ r.product_id = product_id}
        new  == [id |-> inventory_id, product_id |-> product_id,
                 quantity |-> quantity, location |-> location]
    IN  [rowcount  |-> Cardinality(hit),
         integrity |-> FALSE,
         inventory |-> IF hit = {} THEN d.inventory
                       ELSE {r \in d.inventory \ hit :
                                ~(r.product_id = product_id /\ r.location = location)}
                            \cup {new}]

\* UPDATE inventory SET quantity, location WHERE id = ? AND product_id = ?
\* returns the rows matched, the table after the update and whether the
\* statement raised IntegrityError
UpdateInventoryRow(d, inventory_id, product_id, quantity, location) ==
    LET hit  == {r \in d.inventory : r.id = inventory_id /\ r.product_id = product_id}
        new  == [id |-> inventory_id, product_id |-> product_id,
                 quantity |-> quantity, location |-> location]
    IN  [rowcount  |-> Cardinality(hit),
         integrity |-> hit # {} /\ InventoryUniqueConflict(d.inventory, new),
         inventory |-> IF hit = {} THEN d.inventory
                       ELSE (d.inventory \ hit) \cup {new}]

\* INSERT OR IGNORE in place of INSERT OR REPLACE: the old row wins
InsertOrReplaceInventory_Ignore(d, product_id, quantity, location) ==
    LET new  == [id |-> d.seq_inventory + 1, product_id |-> product_id,
                 quantity |-> quantity, location |-> location]
        clash == {r \in d.inventory :
                    r.product_id = product_id /\ r.location = location}
    IN  [integrity |-> InventoryForeignKeyViolation(d, new),
         db |-> IF clash # {} THEN d
                ELSE [d EXCEPT !.inventory = @ \cup {new},
                               !.seq_inventory = @ + 1]]

\* INSERT OR REPLACE INTO inventory (product_id, quantity, location, ...):
\* rows in conflict on UNIQUE(product_id, location) are deleted, the new row
\* takes the next AUTOINCREMENT id
InsertOrReplaceInventory(d, product_id, quantity, location) ==
    LET new  == [id |-> d.seq_inventory + 1, product_id |-> product_id,
                 quantity |-> quantity, location |-> location]
        clash == {r \in d.inventory :
                    r.product_id = product_id /\ r.location = location}
    IN  [integrity |-> InventoryForeignKeyViolation(d, new),
         db |-> [d EXCEPT !.inventory = (@ \ clash) \cup {new},
                          !.seq_inventory = @ + 1]]

NoneStr == <<"N","o","n","e">>

\* the quantity test without effect
QuantityRefused_Never(quantity) == FALSE

\* if quantity < 0: return 'Adet negatif olamaz.'
QuantityRefused(quantity) == quantity < 0

\* POST /stok/update_inventory
update_inventory(d, product_id_str, inventory_id_str, quantity_str, location_raw) ==
    LET location == Strip(location_raw)
        pid == ParseInt(product_id_str)
        qty == ParseInt(quantity_str)
        iid == ParseInt(inventory_id_str)
    IN  IF product_id_str = <<>> \/ quantity_str = <<>>
        THEN Result(d, "MissingField")
        ELSE IF ~pid.ok \/ ~qty.ok
        THEN Result(d, "InvalidFormat")
        ELSE IF QuantityRefused(qty.val)
        THEN Result(d, "NegativeQuantity")
        ELSE IF inventory_id_str # <<>> /\ inventory_id_str # NoneStr
        THEN IF ~iid.ok
             THEN Result(d, "Error")
             ELSE LET u == UpdateInventoryRow(d, iid.val, pid.val, qty.val, location)
                  IN  IF u.integrity THEN Result(d, "DuplicateLocation")
                      ELSE IF u.rowcount = 0 THEN Result(d, "EntryNotFound")
                      ELSE Result([d EXCEPT !.inventory = u.inventory], "ok")
        ELSE LET i == InsertOrReplaceInventory(d, pid.val, qty.val, location)
             IN  IF i.integrity THEN Result(d, "DuplicateLocation")
                 ELSE Result(i.db, "ok")

\* POST /stok/delete_inventory_entry/<int:inventory_id>
delete_inventory_entry(d, inventory_id) ==
    Result([d EXCEPT !.inventory = {r \in @ : r.id # inventory_id}], "ok")

(***************************************************************************)
(* Products.                                                               *)
(***************************************************************************)
\* dynamic_columns_info_dict.get(col, {}): the stock_columns row of a column
\* name, the defaults ('text', no options) when there is none
HasDefinition(d, col) == \E c \in d.stock_columns : c.column_name = col

DefinitionOf(d, col) ==
    IF HasDefinition(d, col)
    THEN CHOOSE c \in d.stock_columns : c.column_name = col
    ELSE [column_name |-> col, column_type |-> "text", options |-> VNull]

\* request.form.get(col, '')
FormGet(form, col) == IF col \in DOMAIN form.fields THEN form.fields[col] ELSE <<>>

\* positions of the columns the handlers treat as dynamic
\* (col_name not in ['id', 'user_product_id', 'name', 'price'])
DynamicPositions(cols) == {i \in DOMAIN cols : cols[i] \notin ReservedNames}

\* the per-column loop without the membership test of 'select' columns
FieldCheck_NoOptionCheck(d, form, col) ==
    LET def   == DefinitionOf(d, col)
        value == Strip(FormGet(form, col))
        num   == ParseFloat(value)
    IN  IF def.column_type = "number"
        THEN IF value = <<>> THEN [err |-> "", v |-> VNull]
             ELSE IF num.ok THEN [err |-> "", v |-> VReal(num.val)]
             ELSE [err |-> "InvalidNumericValue", v |-> VNull]
        ELSE [err |-> "", v |-> VText(value)]

\* the body of the per-column loop of add_product / update_product: the
\* error it flashes ("" for none) and the value it binds
FieldCheck(d, form, col) ==
    LET def   == DefinitionOf(d, col)
        value == Strip(FormGet(form, col))
        num   == ParseFloat(value)
    IN  IF def.column_type = "number"
        THEN IF value = <<>> THEN [err |-> "", v |-> VNull]
             ELSE IF num.ok THEN [err |-> "", v |-> VReal(num.val)]
             ELSE [err |-> "InvalidNumericValue", v |-> VNull]
        ELSE IF /\ def.column_type = "select"
                /\ value # <<>>
                /\ value \notin Range(FormOptions(def.options))
        THEN [err |-> "InvalidOption", v |-> VNull]
        ELSE [err |-> "", v |-> VText(value)]

MinOf(S) == CHOOSE x \in S : \A y \in S : x <= y
MaxOf(S) == CHOOSE x \in S : \A y \in S : y <= x

\* the validation of add_product / update_product, in the order of the code:
\* name, price, then the dynamic columns in table order
ValidateProductForm(d, form) ==
    LET cols == d.product_columns
        bad  == {i \in DynamicPositions(cols) : FieldCheck(d, form, cols[i]).err # ""}
    IN  IF Strip(form.name) = <<>> THEN "EmptyName"
        ELSE IF ~ParseFloat(Strip(form.price)).ok THEN "InvalidPrice"
        ELSE IF bad # {} THEN FieldCheck(d, form, cols[MinOf(bad)]).err
        ELSE "ok"

\* the value bound for the column at position i by the INSERT / UPDATE of a
\* validated form (positions named by neither statement bind nothing)
BoundValue(d, form, i) ==
    LET cols == d.product_columns
    IN  IF i = ColIndex(cols, NAME) THEN VText(Strip(form.name))
        ELSE IF i = ColIndex(cols, PRICE)
             THEN VReal(ParseFloat(Strip(form.price)).val)
        ELSE FieldCheck(d, form, cols[i]).v

\* COUNT(*) + 1 in place of MAX(user_product_id) + 1
NextUserProductId_Count(d) == Cardinality(d.products) + 1

\* SELECT MAX(user_product_id) FROM products, then
\* int(result) if result is not None ... else 0, plus one.  The column holds
\* integers only for as long as it exists under this name.
NextUserProductId(d) ==
    LET i    == ColIndex(d.product_columns, USER_PRODUCT_ID)
        used == {r[i].n : r \in {x \in d.products : x[i].k = "int"}}
    IN  IF used = {} THEN 1 ELSE MaxOf(used) + 1

\* the value the INSERT binds to the first column of products when that
\* column is no longer named id (NULL when it is: the INSERT does not name it)
GivenRowid(d, form) ==
    IF 1 \in DynamicPositions(d.product_columns)
    THEN ApplyAffinity("INTEGER", BoundValue(d, form, 1))
    ELSE VNull

\* the rowid SQLite gives the row: the integer bound to the first column, or
\* the next value of the AUTOINCREMENT sequence
NewRowid(d, given) == IF given.k = "int" THEN given.n ELSE d.seq_products + 1

\* the row the INSERT writes
NewProductRow(d, form, rowid) ==
    [i \in DOMAIN d.product_columns |->
        IF i = 1 THEN VInt(rowid)
        ELSE IF i = ColIndex(d.product_columns, USER_PRODUCT_ID)
        THEN VInt(NextUserProductId(d))
        ELSE ApplyAffinity(ColumnAffinity(i), BoundValue(d, form, i))]

\* the INSERT with the value bound to the first column and the rowid known
InsertProductRowAs(d, form, given, rowid) ==
    [operational |-> \/ ColIndex(d.product_columns, NAME) = 0
                     \/ ColIndex(d.product_columns, PRICE) = 0,
     integrity   |-> \/ given.k \notin {"int", "null"}
                     \/ rowid \in ProductRowids(d),
     rowid       |-> rowid,
     db |-> [d EXCEPT !.products = @ \cup {NewProductRow(d, form, rowid)},
                      !.seq_products = IF rowid > @ THEN rowid ELSE @]]

\* INSERT INTO products (user_product_id, name, price, <dynamic columns>):
\* the rowid SQLite gives the row (AUTOINCREMENT, or the value bound to a
\* renamed first column), whether the statement raises, and the row
InsertProductRow(d, form) ==
    InsertProductRowAs(d, form, GivenRowid(d, form), NewRowid(d, GivenRowid(d, form)))

\* INSERT INTO inventory (product_id, quantity, location) VALUES (?, 0, '')
InsertDefaultInventory(d, product_id) ==
    LET new == [id |-> d.seq_inventory + 1, product_id |-> product_id,
                quantity |-> 0, location |-> <<>>]
    IN  [integrity |-> \/ InventoryUniqueConflict(d.inventory, new)
                       \/ InventoryForeignKeyViolation(d, new),
         db |-> [d EXCEPT !.inventory = @ \cup {new},
                          !.seq_inventory = @ + 1]]

\* the unit committing after each INSERT: a failure of the second INSERT
\* leaves the product behind
AddProductUnit_CommitEach(d, v, p, inv) ==
    IF ColIndex(d.product_columns, USER_PRODUCT_ID) = 0
    THEN Result(d, "ServerError")
    ELSE IF v # "ok" THEN Result(d, v)
    ELSE IF p.operational \/ p.integrity THEN Result(d, "Error")
    ELSE IF inv.integrity THEN Result(p.db, "Error")
    ELSE Result(inv.db, "ok")

\* the outcome of add_product from the outcome v of its validation, p of
\* its INSERT into products and inv of its INSERT into inventory.  An
\* exception after the first INSERT leaves the transaction uncommitted; it
\* is discarded when the request's connection is closed.
AddProductUnit(d, v, p, inv) ==
    IF ColIndex(d.product_columns, USER_PRODUCT_ID) = 0
    THEN Result(d, "ServerError")
    ELSE IF v # "ok" THEN Result(d, v)
    ELSE IF p.operational \/ p.integrity THEN Result(d, "Error")
    ELSE IF inv.integrity THEN Result(d, "Error")
    ELSE Result(inv.db, "ok")

\* the two INSERTs of add_product, the second with the lastrowid of the first
InsertProductAndInventory(d, v, p) ==
    AddProductUnit(d, v, p, InsertDefaultInventory(p.db, p.rowid))

\* POST /stok/add_product
add_product(d, form) ==
    InsertProductAndInventory(d, ValidateProductForm(d, form), InsertProductRow(d, form))

\* the UPDATE naming only the dynamic columns the form carries a field for
UpdateProductRows_KeepUnsupplied(d, product_id, form) ==
    LET cols == d.product_columns
        idPos == ColIndex(cols, ID)
        set  == {i \in DynamicPositions(cols) : cols[i] \in DOMAIN form.fields}
                \cup {ColIndex(cols, NAME), ColIndex(cols, PRICE)}
        hit  == {r \in d.products : r[idPos] = VInt(product_id)}
        upd(r) == [i \in DOMAIN cols |->
                     IF i \in set
                     THEN ApplyAffinity(ColumnAffinity(i), BoundValue(d, form, i))
                     ELSE r[i]]
    IN  [rowcount |-> Cardinality(hit),
         db |-> [d EXCEPT !.products = (@ \ hit) \cup {upd(r) : r \in hit}]]

\* UPDATE products SET name = ?, price = ?, <dynamic columns> WHERE id = ?
UpdateProductRows(d, product_id, form) ==
    LET cols == d.product_columns
        idPos == ColIndex(cols, ID)
        set  == DynamicPositions(cols) \cup {ColIndex(cols, NAME), ColIndex(cols, PRICE)}
        hit  == {r \in d.products : r[idPos] = VInt(product_id)}
        upd(r) == [i \in DOMAIN cols |->
                     IF i \in set
                     THEN ApplyAffinity(ColumnAffinity(i), BoundValue(d, form, i))
                     ELSE r[i]]
    IN  [rowcount |-> Cardinality(hit),
         db |-> [d EXCEPT !.products = (@ \ hit) \cup {upd(r) : r \in hit}]]

\* POST /stok/update_product/<int:product_id>
update_product(d, product_id, form) ==
    LET v    == ValidateProductForm(d, form)
        cols == d.product_columns
    IN  IF v # "ok" THEN Result(d, v)
        ELSE IF \E c \in {ID, NAME, PRICE} : ColIndex(cols, c) = 0
        THEN Result(d, "Error")
        ELSE LET u == UpdateProductRows(d, product_id, form)
             IN  IF u.rowcount > 0 THEN Result(u.db, "ok")
                 ELSE Result(u.db, "ProductNotFound")

\* DELETE FROM products WHERE id = ?  (with the cascade of the foreign key
\* of inventory when the connection enforces foreign keys)
DeleteProductRows(d, product_id) ==
    LET i    == ColIndex(d.product_columns, ID)
        gone == {r \in d.products : r[i] = VInt(product_id)}
    IN  [rowcount |-> Cardinality(gone),
         db |-> [d EXCEPT
                   !.products  = @ \ gone,
                   !.inventory =
                       IF ForeignKeysEnabled
                       THEN {e \in @ : e.product_id \notin {r[1].n : r \in gone}}
                       ELSE @]]

\* POST /stok/delete_product/<int:product_id>
delete_product(d, product_id) ==
    IF ColIndex(d.product_columns, ID) = 0
    THEN Result(d, "Error")
    ELSE LET x == DeleteProductRows(d, product_id)
         IN  IF x.rowcount > 0 THEN Result(x.db, "ok")
             ELSE Result(x.db, "ProductNotFound")

(***************************************************************************)
(* Attribute registry and visibility preferences.                          *)
(***************************************************************************)
\* ''.join(c for c in raw if c.isalnum() or c == ' ').replace(' ', '_').lower()
Sanitize(raw) == Lower(ReplaceChar(KeepAlnumOrSpace(raw), " ", "_"))

\* the reserved words of SQL of at most two letters: as a bare column name
\* they make ALTER TABLE a syntax error
SqlKeywords == {<<"a","s">>, <<"i","n">>, <<"i","s">>, <<"o","n">>,
                <<"o","r">>, <<"t","o">>}

\* whether SQLite parses the bare, sanitised name as a column name
ValidIdentifier(n) == n # <<>> /\ ~IsDigit(n[1]) /\ n \notin SqlKeywords

\* the names the registry holds, in place of the columns of the table
ExistingColumnsLower_FromDefinitions(d) ==
    {Lower(c.column_name) : c \in d.stock_columns}

\* [row['name'].lower() for row in PRAGMA table_info(products)]
ExistingColumnsLower(d) == {Lower(d.product_columns[i]) : i \in DOMAIN d.product_columns}

\* ALTER TABLE products ADD COLUMN <new_col> TEXT DEFAULT ""
\* (DDL outside a transaction: it is committed as it is executed)
AlterAddColumn(d, new_col) ==
    [d EXCEPT !.product_columns = Append(@, new_col),
              !.products = {Append(r, VText(<<>>)) : r \in @}]

\* INSERT OR IGNORE INTO stock_columns (column_name, column_type, options)
InsertOrIgnoreDefinition(d, name, type, options) ==
    IF HasDefinition(d, name) THEN d
    ELSE [d EXCEPT !.stock_columns = @ \cup
            {[column_name |-> name, column_type |-> type, options |-> options]}]

\* INSERT OR IGNORE in place of INSERT OR REPLACE: an existing row stays
InsertOrReplaceVisibility_Ignore(d, user_id, name, visible) ==
    IF \E v \in d.user_column_visibility : v.column_name = name THEN d
    ELSE [d EXCEPT !.user_column_visibility = @ \cup
            {[user_id |-> user_id, column_name |-> name, is_visible |-> visible]}]

\* INSERT OR REPLACE INTO user_column_visibility (user_id, column_name,
\* is_visible): UNIQUE(column_name) decides which row is replaced
InsertOrReplaceVisibility(d, user_id, name, visible) ==
    [d EXCEPT !.user_column_visibility =
        {v \in @ : v.column_name # name} \cup
        {[user_id |-> user_id, column_name |-> name, is_visible |-> visible]}]

\* POST /stok/add_column
add_column(d, new_column, column_type, options_input) ==
    LET new_col_raw  == Strip(new_column)
        options_raw  == Strip(options_input)
        new_col      == Sanitize(new_col_raw)
        options_list == ParseOptionsInput(options_raw)
        options_json == IF column_type = "select"
                        THEN VText(JsonDumps(options_list)) ELSE VNull
    IN  IF new_col_raw = <<>> THEN Result(d, "InvalidAttributeName")
        ELSE IF new_col = <<>> \/ new_col \in ReservedNames
        THEN Result(d, "InvalidAttributeName")
        ELSE IF column_type = "select" /\ options_list = <<>>
        THEN Result(d, "EmptyOptionSet")
        ELSE IF new_col \in ExistingColumnsLower(d)
        THEN Result(d, "DuplicateAttribute")
        ELSE IF ~ValidIdentifier(new_col) \/ ColIndex(d.product_columns, new_col) # 0
        THEN Result(d, "Error")
        ELSE Result(InsertOrReplaceVisibility(
                        InsertOrIgnoreDefinition(AlterAddColumn(d, new_col),
                                                 new_col, column_type, options_json),
                        SessionUserId, new_col, TRUE),
                    "ok")

\* ALTER TABLE products RENAME COLUMN <old> TO <new>
\* (DDL outside a transaction: it is committed as it is executed)
AlterRenameColumn(d, old, new) ==
    [d EXCEPT !.product_columns[ColIndex(d.product_columns, old)] = new]

\* UPDATE stock_columns SET column_name = ? WHERE column_name = ?
\* (column_name is UNIQUE)
RenameDefinition(d, old, new) ==
    LET hit == {c \in d.stock_columns : c.column_name = old}
    IN  [integrity |-> hit # {} /\ \E c \in d.stock_columns \ hit : c.column_name = new,
         db |-> [d EXCEPT !.stock_columns =
                    (@ \ hit) \cup {[c EXCEPT !.column_name = new] : c \in hit}]]

\* UPDATE user_column_visibility SET column_name = ?
\* WHERE column_name = ? AND user_id = ?   (column_name is UNIQUE)
RenameVisibility(d, old, new, user_id) ==
    LET hit == {v \in d.user_column_visibility :
                    v.column_name = old /\ v.user_id = user_id}
    IN  [integrity |-> hit # {} /\
                       \E v \in d.user_column_visibility \ hit : v.column_name = new,
         db |-> [d EXCEPT !.user_column_visibility =
                    (@ \ hit) \cup {[v EXCEPT !.column_name = new] : v \in hit}]]

\* POST /stok/rename_column.  The two UPDATEs run in one transaction, which
\* an exception leaves uncommitted; the ALTER TABLE before them is already
\* in the file.
rename_column(d, old_column_name, new_column_name) ==
    LET new_column_raw == Strip(new_column_name)
        new     == Sanitize(new_column_raw)
        altered == AlterRenameColumn(d, old_column_name, new)
        defs    == RenameDefinition(altered, old_column_name, new)
        vis     == RenameVisibility(defs.db, old_column_name, new, SessionUserId)
    IN  IF old_column_name = <<>> \/ new_column_raw = <<>>
        THEN Result(d, "MissingField")
        ELSE IF new = <<>> \/ new \in ReservedNames
        THEN Result(d, "InvalidAttributeName")
        ELSE IF Lower(old_column_name) \notin ExistingColumnsLower(d)
        THEN Result(d, "AttributeNotFound")
        ELSE IF new \in ExistingColumnsLower(d)
        THEN Result(d, "DuplicateAttribute")
        ELSE IF ~ValidIdentifier(new) THEN Result(d, "Error")
        ELSE IF defs.integrity \/ vis.integrity THEN Result(altered, "Error")
        ELSE Result(vis.db, "ok")

\* the handler refusing an input without items, as add_column does
update_column_options_RefusingEmpty(d, column_name, options_input) ==
    IF column_name = <<>> THEN Result(d, "MissingField")
    ELSE IF ~HasDefinition(d, column_name) THEN Result(d, "AttributeNotFound")
    ELSE IF DefinitionOf(d, column_name).column_type # "select"
    THEN Result(d, "NotASelectAttribute")
    ELSE IF ParseOptionsInput(Strip(options_input)) = <<>>
    THEN Result(d, "EmptyOptionSet")
    ELSE Result([d EXCEPT !.stock_columns =
                    {IF c.column_name = column_name
                     THEN [c EXCEPT !.options =
                              VText(JsonDumps(ParseOptionsInput(Strip(options_input))))]
                     ELSE c : c \in @}],
                "ok")

\* POST /stok/update_column_options
update_column_options(d, column_name, options_input) ==
    LET options_json == VText(JsonDumps(ParseOptionsInput(Strip(options_input))))
    IN  IF column_name = <<>> THEN Result(d, "MissingField")
        ELSE IF ~HasDefinition(d, column_name) THEN Result(d, "AttributeNotFound")
        ELSE IF DefinitionOf(d, column_name).column_type # "select"
        THEN Result(d, "NotASelectAttribute")
        ELSE Result([d EXCEPT !.stock_columns =
                        {IF c.column_name = column_name
                         THEN [c EXCEPT !.options = options_json] ELSE c : c \in @}],
                    "ok")

\* POST /stok/toggle_column_visibility
toggle_column_visibility(d, column_name, is_visible) ==
    IF column_name = <<>> THEN Result(d, "MissingField")
    ELSE IF column_name \in ReservedNames THEN Result(d, "ProtectedColumn")
    ELSE Result(InsertOrReplaceVisibility(d, SessionUserId, column_name,
                                          is_visible = "true"),
                "ok")

(***************************************************************************)
(* Product listing (GET /stok): the columns shown and their visibility.    *)
(***************************************************************************)
\* all_display_columns_with_info: the columns of the table other than id
\* that are base columns or have a definition
DisplayColumns(d) ==
    {d.product_columns[i] : i \in
        {j \in DOMAIN d.product_columns :
            /\ d.product_columns[j] # ID
            /\ \/ d.product_columns[j] \in {USER_PRODUCT_ID, NAME, PRICE}
               \/ HasDefinition(d, d.product_columns[j])}}

\* SELECT column_name, is_visible FROM user_column_visibility WHERE user_id = ?
VisibilityRecords(d, user_id) ==
    {v \in d.user_column_visibility : v.user_id = user_id}

\* column_visibility_preferences: the records of the user, and True for
\* every column shown that has no record
column_visibility_preferences(d, user_id) ==
    [c \in {v.column_name : v \in VisibilityRecords(d, user_id)} \cup DisplayColumns(d) |->
        IF \E v \in VisibilityRecords(d, user_id) : v.column_name = c
        THEN (CHOOSE v \in VisibilityRecords(d, user_id) : v.column_name = c).is_visible
        ELSE TRUE]

(***************************************************************************)
(* Inventory listing (GET /stok/envanter).                                 *)
(***************************************************************************)
\* the characters of the model in the order of their codes (BINARY collation)
CodeOrder == <<" ", "%", ",", "-">> \o Digits \o UpperLetters \o <<"_">> \o LowerLetters

CodeOf == [c \in Range(CodeOrder) |-> IndexOf(CodeOrder, c)]

\* a < b for two texts, as ORDER BY compares them
RECURSIVE StrLess(_, _)
StrLess(a, b) ==
    IF b = <<>> THEN FALSE
    ELSE IF a = <<>> THEN TRUE
    ELSE IF Head(a) = Head(b) THEN StrLess(Tail(a), Tail(b))
    ELSE CodeOf[Head(a)] < CodeOf[Head(b)]

\* the LIKE operator with case-sensitive comparison of letters
RECURSIVE Like_CaseSensitive(_, _)
Like_CaseSensitive(pattern, text) ==
    IF pattern = <<>> THEN text = <<>>
    ELSE IF Head(pattern) = "%"
    THEN Like_CaseSensitive(Tail(pattern), text)
         \/ (text # <<>> /\ Like_CaseSensitive(pattern, Tail(text)))
    ELSE IF text = <<>> THEN FALSE
    ELSE IF Head(pattern) = "_" THEN Like_CaseSensitive(Tail(pattern), Tail(text))
    ELSE Head(pattern) = Head(text) /\ Like_CaseSensitive(Tail(pattern), Tail(text))

\* text LIKE pattern of SQLite: % matches any run of characters, _ any one
\* character, and ASCII letters match whatever their case
RECURSIVE Like(_, _)
Like(pattern, text) ==
    IF pattern = <<>> THEN text = <<>>
    ELSE IF Head(pattern) = "%"
    THEN Like(Tail(pattern), text) \/ (text # <<>> /\ Like(pattern, Tail(text)))
    ELSE IF text = <<>> THEN FALSE
    ELSE IF Head(pattern) = "_" THEN Like(Tail(pattern), Tail(text))
    ELSE LowerChar(Head(pattern)) = LowerChar(Head(text))
         /\ Like(Tail(pattern), Tail(text))

\* SELECT ... FROM products [WHERE name LIKE '%<filter>%']
FilteredProducts(d, name_filter) ==
    LET namePos == ColIndex(d.product_columns, NAME)
    IN  {r \in d.products :
            name_filter = <<>> \/ Like(<<"%">> \o name_filter \o <<"%">>, r[namePos].s)}

\* ... ORDER BY user_product_id (rows of equal key in rowid order)
RECURSIVE ProductsInOrder(_, _)
ProductsInOrder(rows, upidPos) ==
    IF rows = {} THEN <<>>
    ELSE LET first == CHOOSE r \in rows : \A o \in rows :
                          \/ r[upidPos].n < o[upidPos].n
                          \/ r[upidPos].n = o[upidPos].n /\ r[1].n <= o[1].n
         IN  <<first>> \o ProductsInOrder(rows \ {first}, upidPos)

\* the entries of the product whatever the location asked for
FilteredEntries_AnyLocation(d, product_id, location_filter) ==
    {e \in d.inventory : e.product_id = product_id}

\* SELECT id AS inventory_id, quantity, location FROM inventory
\* WHERE product_id = ? [AND location = ?]
FilteredEntries(d, product_id, location_filter) ==
    {e \in d.inventory :
        /\ e.product_id = product_id
        /\ location_filter = <<>> \/ e.location = location_filter}

\* ... ORDER BY location
RECURSIVE EntriesInOrder(_)
EntriesInOrder(entries) ==
    IF entries = {} THEN <<>>
    ELSE LET first == CHOOSE e \in entries : \A o \in entries :
                          \/ StrLess(e.location, o.location)
                          \/ e.location = o.location /\ e.id <= o.id
         IN  <<[inventory_id |-> VInt(first.id), quantity |-> first.quantity,
                location |-> first.location]>>
             \o EntriesInOrder(entries \ {first})

\* the entry shown for a product without entries when no location is asked
PlaceholderEntry == [inventory_id |-> VNull, quantity |-> 0, location |-> <<>>]

\* the element of product_inventory_data for one product and its entries
ListedProduct(d, row, entries) ==
    [id              |-> row[ColIndex(d.product_columns, ID)],
     user_product_id |-> row[ColIndex(d.product_columns, USER_PRODUCT_ID)],
     name            |-> row[ColIndex(d.product_columns, NAME)],
     price           |-> row[ColIndex(d.product_columns, PRICE)],
     inventory_entries |-> IF entries = <<>> THEN <<PlaceholderEntry>> ELSE entries]

\* the loop over the products: a product without entries is skipped when a
\* location is asked for
RECURSIVE ListProducts(_, _, _)
ListProducts(d, products, location_filter) ==
    IF products = <<>> THEN <<>>
    ELSE LET entries == EntriesInOrder(FilteredEntries(
                            d, Head(products)[ColIndex(d.product_columns, ID)].n,
                            location_filter))
             rest    == ListProducts(d, Tail(products), location_filter)
         IN  IF entries = <<>> /\ location_filter # <<>> THEN rest
             ELSE <<ListedProduct(d, Head(products), entries)>> \o rest

\* GET /stok/envanter: product_inventory_data.  The query names the four
\* base columns and raises when one of them is no longer in the table.
envanter_listesi(d, product_name_filter, location_filter) ==
    IF \E c \in {ID, USER_PRODUCT_ID, NAME, PRICE} : ColIndex(d.product_columns, c) = 0
    THEN [status |-> "ServerError", rows |-> <<>>]
    ELSE [status |-> "ok",
          rows |-> ListProducts(
                      d,
                      ProductsInOrder(FilteredProducts(d, Strip(product_name_filter)),
                                      ColIndex(d.product_columns, USER_PRODUCT_ID)),
                      Strip(location_filter))]

(***************************************************************************)
(* Requests.  A request holds its own connection.  Every handler runs as   *)
(* one step, except add_product where SpecRace takes it in two: the reads  *)
(* up to the validation, then the INSERTs and the commit.                  *)
(* last_updated of inventory is not modelled: nothing reads it back.       *)
(* A handler returns the store it leaves behind and the outcome it reports *)
(* (status); the error names are those of the specification.               *)
(***************************************************************************)
ProductIdStrs   == {<<"1">>, <<"2">>}
InventoryIdStrs == {IntToStr(i) : i \in 1..MaxInventorySeq} \cup {<<>>}
QuantityStrs    == {<<"0">>, <<"1">>}
LocationInputs  == {<<>>, <<"A">>}

\* well-formed update_inventory requests, and one request for each way a
\* field can be missing or malformed
InventoryRequests ==
    {[product_id |-> p, inventory_id |-> i, quantity |-> q, location |-> l] :
        p \in ProductIdStrs, i \in InventoryIdStrs, q \in QuantityStrs,
        l \in LocationInputs}
    \cup
    {[product_id |-> <<"1">>, inventory_id |-> <<>>, quantity |-> q,
      location |-> <<" ", "A">>] : q \in {<<"1">>, <<"-", "1">>, <<"x">>, <<>>}}
    \cup
    {[product_id |-> p, inventory_id |-> i, quantity |-> <<"1">>,
      location |-> <<"A", " ">>] :
        p \in {<<>>, <<"x">>, <<"1">>}, i \in {NoneStr, <<"x">>}}

NameInputs  == {<<"w">>, <<" ">>}
PriceInputs == {<<"9">>, <<"x">>}
ValueInputs == {<<>>, <<"1">>, <<"r">>}

\* the columns a product form of the page carries a field for
FormColumns(d) == {d.product_columns[i] : i \in DynamicPositions(d.product_columns)}

\* every form over the inputs
AllProductForms(d) ==
    {[name |-> n, price |-> p, fields |-> f] :
        n \in NameInputs, p \in PriceInputs, f \in [FormColumns(d) -> ValueInputs]}

\* the forms the requests of the model send: every choice of field values
\* under a good name and price, and one form for a blank name and one for
\* an unparseable price
ProductForms(d) ==
    {[name |-> <<"w">>, price |-> <<"9">>, fields |-> f] :
        f \in [FormColumns(d) -> ValueInputs]}
    \cup
    {[name |-> <<" ">>, price |-> <<"9">>, fields |-> [c \in FormColumns(d) |-> <<"r">>]],
     [name |-> <<"w">>, price |-> <<"x">>, fields |-> [c \in FormColumns(d) |-> <<"r">>]]}

ColumnNameInputs == {<<"c">>, <<" ", "C">>, <<"s", "-">>}
BadNameInputs    == {<<"I", "d">>, <<"-">>, <<"t", "o">>}
OldNameInputs    == {<<"c">>, <<"C">>, <<"s">>, <<"z">>, <<>>, PRICE}
ColumnTypeInputs == {"text", "number", "select"}
OptionInputs     == {<<>>, <<"r">>, <<" ", "r", ",", ",", "g">>}
VisibleInputs    == {"true", "false"}

\* add_column requests: option input matters for 'select' only
AddColumnRequests ==
    {[name |-> n, type |-> t, options |-> <<>>] :
        n \in ColumnNameInputs \cup BadNameInputs, t \in {"text", "number"}}
    \cup
    {[name |-> n, type |-> "select", options |-> o] :
        n \in ColumnNameInputs, o \in OptionInputs}

RenameColumnRequests ==
    {[old |-> o, new |-> n] : o \in OldNameInputs, n \in ColumnNameInputs}
    \cup
    {[old |-> <<"c">>, new |-> n] : n \in BadNameInputs}

WithinBounds(d) ==
    d.seq_products <= MaxProductSeq /\ d.seq_inventory <= MaxInventorySeq

\* the browsers that hold a session cookie
Clients == {"x", "y"}

\* a session after logout, or before the first login: no key is set
NoSession == [logged_in |-> FALSE, user_id |-> 0, username |-> <<>>,
              stock_db_path |-> <<>>]

\* users.db as init_user_db leaves it, no file in stock_dbs/, no session
NoAccounts ==
    /\ users = [rows |-> {}, seq |-> 0]
    /\ stores = <<>>
    /\ session = [c \in Clients |-> NoSession]
    /\ actor = 0

\* the add_product requests that may be in progress at the same time
RaceRequests == {"r1", "r2"}

NoForm == [name |-> <<>>, price |-> <<>>, fields |-> <<>>]

\* a request that has not started
Idle == [pc |-> "idle", form |-> NoForm, next_user_id |-> 0, status |-> ""]

NoRequests == pending = [q \in RaceRequests |-> Idle]

\* db is the tenant's SQLite file.  issued is a history variable: the
\* display identifiers add_product has given out so far.  pending holds,
\* for every add_product request in progress, what it has read so far.
Init ==
    /\ db = EmptyStore
    /\ issued = {}
    /\ NoAccounts
    /\ NoRequests

\* a request other than add_product: the store becomes what the handler
\* committed
Commit(r) ==
    /\ WithinBounds(r.db)
    /\ db' = r.db
    /\ UNCHANGED <<issued, tenancy, pending>>

\* add_product: the store becomes what the handler committed, and the
\* display identifier id it gave out is recorded
CommitIssuing(r, id) ==
    /\ WithinBounds(r.db)
    /\ db' = r.db
    /\ issued' = IF r.status = "ok" THEN issued \cup {id} ELSE issued
    /\ UNCHANGED <<tenancy, pending>>

AddProduct ==
    \E form \in ProductForms(db) :
        CommitIssuing(add_product(db, form), NextUserProductId(db))

UpdateProduct ==
    \E id \in 1..MaxProductSeq, form \in ProductForms(db) :
        Commit(update_product(db, id, form))

DeleteProduct ==
    \E id \in 1..MaxProductSeq : Commit(delete_product(db, id))

UpdateInventory ==
    \E q \in InventoryRequests :
        Commit(update_inventory(db, q.product_id, q.inventory_id, q.quantity,
                                q.location))

DeleteInventoryEntry ==
    \E id \in 1..MaxInventorySeq : Commit(delete_inventory_entry(db, id))

AddColumn ==
    \E q \in AddColumnRequests : Commit(add_column(db, q.name, q.type, q.options))

RenameColumn ==
    \E q \in RenameColumnRequests : Commit(rename_column(db, q.old, q.new))

UpdateColumnOptions ==
    \E n \in OldNameInputs, o \in OptionInputs :
        Commit(update_column_options(db, n, o))

ToggleColumnVisibility ==
    \E n \in OldNameInputs, v \in VisibleInputs :
        Commit(toggle_column_visibility(db, n, v))

NextLedger ==
    \/ AddProduct
    \/ DeleteProduct
    \/ UpdateInventory
    \/ DeleteInventoryEntry

NextSchema ==
    \/ AddColumn
    \/ RenameColumn
    \/ UpdateColumnOptions
    \/ ToggleColumnVisibility

\* add_product while the catalog holds fewer than MaxCatalogProducts rows
CatalogAddProduct ==
    /\ db.seq_products < MaxCatalogProducts
    /\ AddProduct

NextCatalog ==
    \/ AddColumn
    \/ UpdateColumnOptions
    \/ CatalogAddProduct
    \/ UpdateProduct
    \/ DeleteProduct

\* the product names and locations of the stores the listing is read from
ListingNames     == {<<"w">>, <<"a", "W">>, <<"b">>}
ListingLocations == {<<"A">>, <<"a">>}

ListingWithin(d) ==
    d.seq_products <= MaxListingProducts /\ d.seq_inventory <= MaxListingEntries

ListingCommit(r, ids) ==
    /\ ListingWithin(r.db)
    /\ db' = r.db
    /\ issued' = IF r.status = "ok" THEN issued \cup ids ELSE issued
    /\ UNCHANGED <<tenancy, pending>>

ListingAddProduct ==
    \E n \in ListingNames :
        ListingCommit(add_product(db, [name |-> n, price |-> <<"9">>,
                                       fields |-> [c \in FormColumns(db) |-> <<>>]]),
                      {NextUserProductId(db)})

ListingUpdateInventory ==
    \E p \in ProductIdStrs, l \in ListingLocations :
        ListingCommit(update_inventory(db, p, <<>>, <<"1">>, l), {})

ListingDeleteInventoryEntry ==
    \E id \in 1..MaxListingEntries : ListingCommit(delete_inventory_entry(db, id), {})

NextListing ==
    \/ ListingAddProduct
    \/ ListingUpdateInventory
    \/ ListingDeleteInventoryEntry


\* products and the inventory ledger
SpecLedger == Init /\ [][NextLedger]_vars

\* the attribute registry: dynamic columns, their definitions and the
\* visibility preferences
SpecSchema == Init /\ [][NextSchema]_vars

\* typed dynamic columns and the products written through them
SpecCatalog == Init /\ [][NextCatalog]_vars

\* option texts as a store of an earlier version or an edit by hand left
\* them in stock_columns.options: JSON lists, JSON that is no list, and texts
\* that are no JSON
StoredOptionTexts ==
    {<<"[", "\"", "r", "\"", "]">>,
     <<" ", "[", "\"", "r", "\"", ",", " ", "\"", "g", "\"", "]">>,
     <<"\"", "r", "\"">>,
     <<"[", "'", "r", "'", "]">>,
     <<"r", ",", "g">>,
     <<"r", ",", "'">>,
     <<"[", "r", ",", " ", "\"", "\"", "]">>,
     <<"[">>}

\* a store whose 'select' column c holds one of these texts
InitLegacy ==
    /\ \E o \in StoredOptionTexts :
          db = [add_column(EmptyStore, <<"c">>, "select", <<"r">>).db
                    EXCEPT !.stock_columns = {[x EXCEPT !.options = VText(o)] : x \in @}]
    /\ issued = {}
    /\ NoAccounts
    /\ NoRequests

NextLegacy ==
    \/ AddProduct
    \/ UpdateProduct
    \/ DeleteProduct
    \/ UpdateColumnOptions

\* products written against option lists that the handlers did not write
SpecLegacy == InitLegacy /\ [][NextLegacy]_vars

\* the stores the inventory listing is read from
SpecListing == Init /\ [][NextListing]_vars

(***************************************************************************)
(* Accounts and tenants (src/app.py).  users is users.db, stores maps the  *)
(* path of every file of stock_dbs/ to the store it holds, session is the  *)
(* session cookie of every browser.  actor is a history variable: the user *)
(* id of the session the last stock request ran in, 0 after a request that *)
(* is not a stock request.                                                 *)
(***************************************************************************)
Usernames == {<<"a">>, <<"b">>}
Passwords == {<<"p">>, <<"q">>}

\* generate_password_hash / check_password_hash: a hash matches the
\* password it was made from and no other
generate_password_hash(password) == [method |-> "pbkdf2:sha256", of |-> password]

check_password_hash(pwhash, password) == pwhash.of = password

\* every user is given the same file
UserStockDbPath_Shared(user_id) ==
    <<"s", "t", "o", "c", "k", ".", "d", "b">>

\* os.path.join(STOCK_DB_DIR, f'stock_{user_id}.db')
UserStockDbPath(user_id) ==
    <<"s", "t", "o", "c", "k", "_">> \o NatToStr(user_id) \o <<".", "d", "b">>

\* init_stock_table(db_path, user_id): CREATE TABLE IF NOT EXISTS, a file
\* that holds the tables already keeps what it holds
init_stock_table(files, db_path) ==
    IF db_path \in DOMAIN files THEN files ELSE files @@ (db_path :> EmptyStore)

\* POST /register (every user registers with the first password)
Register ==
    \E username \in Usernames, password \in {<<"p">>} :
        LET user_id == users.seq + 1
            path    == UserStockDbPath(user_id)
        IN  /\ IF \E u \in users.rows : u.username = username
               THEN UNCHANGED <<users, stores>>
               ELSE /\ users' = [rows |-> users.rows \cup
                                    {[id |-> user_id, username |-> username,
                                      password |-> generate_password_hash(password),
                                      stock_db_path |-> path]},
                                 seq |-> user_id]
                    /\ stores' = init_stock_table(stores, path)
            /\ actor' = 0
            /\ UNCHANGED <<db, issued, pending, session>>

\* POST /login
Login ==
    \E c \in Clients, username \in Usernames, password \in Passwords :
        /\ session' =
              IF \E u \in users.rows : /\ u.username = username
                                       /\ check_password_hash(u.password, password)
              THEN LET user == CHOOSE u \in users.rows : u.username = username
                   IN  [session EXCEPT ![c] =
                           [logged_in |-> TRUE, user_id |-> user.id,
                            username |-> user.username,
                            stock_db_path |-> user.stock_db_path]]
              ELSE session
        /\ actor' = 0
        /\ UNCHANGED <<db, issued, pending, users, stores>>

\* GET /logout
Logout ==
    \E c \in Clients :
        /\ session' = [session EXCEPT ![c] = NoSession]
        /\ actor' = 0
        /\ UNCHANGED <<db, issued, pending, users, stores>>

\* the rows a request wrote into user_column_visibility carry the user id
\* of its session
WithSessionUser(before, after, user_id) ==
    [after EXCEPT !.user_column_visibility =
        {IF v \in before.user_column_visibility THEN v
         ELSE [v EXCEPT !.user_id = user_id] : v \in @}]

TenantWithin(d) ==
    /\ d.seq_products <= MaxTenantProducts
    /\ d.seq_inventory <= MaxTenantProducts + 1

\* login_required and get_stock_db: the store a stock request of browser c
\* works on is the file at session['stock_db_path']
SessionStore(c) == stores[session[c].stock_db_path]

\* a stock request of browser c: the handler runs on the file of the
\* session and commits there
TenantCommit(c, r) ==
    /\ session[c].logged_in
    /\ session[c].stock_db_path \in DOMAIN stores
    /\ TenantWithin(r.db)
    /\ stores' = [stores EXCEPT ![session[c].stock_db_path] =
                      WithSessionUser(SessionStore(c), r.db, session[c].user_id)]
    /\ actor' = session[c].user_id
    /\ UNCHANGED <<db, issued, pending, users, session>>

TenantAddProduct ==
    \E c \in Clients :
        /\ session[c].stock_db_path \in DOMAIN stores
        /\ TenantCommit(c, add_product(SessionStore(c),
                              [name |-> <<"w">>, price |-> <<"9">>,
                               fields |-> [col \in FormColumns(SessionStore(c)) |-> <<>>]]))

TenantUpdateInventory ==
    \E c \in Clients :
        /\ session[c].stock_db_path \in DOMAIN stores
        /\ TenantCommit(c, update_inventory(SessionStore(c), <<"1">>, NoneStr,
                                             <<"5">>, <<"A">>))

TenantAddColumn ==
    \E c \in Clients :
        /\ session[c].stock_db_path \in DOMAIN stores
        /\ TenantCommit(c, add_column(SessionStore(c), <<"c">>, "select", <<"r">>))

NextTenants ==
    \/ Register
    \/ Login
    \/ Logout
    \/ TenantAddProduct
    \/ TenantUpdateInventory
    \/ TenantAddColumn

\* several tenants, each working in its own session
SpecTenants == Init /\ [][NextTenants]_vars

(***************************************************************************)
(* add_product in two steps.  The threaded server runs requests side by    *)
(* side, each on a connection of its own; the SELECTs of add_product hold  *)
(* no lock once they have returned, and the INSERTs up to the commit run   *)
(* under the write lock of SQLite, so they are one step.                   *)
(***************************************************************************)
RaceForms ==
    {[name |-> <<"w">>, price |-> pr, fields |-> <<>>] : pr \in {<<"9">>, <<"x">>}}

\* the row written under rowid carries the display identifier computed at
\* the time of the INSERT
WithUserProductId_AtInsert(d, p, next_user_id) == p

\* insert_values = [next_user_id, ...]: the row written under p.rowid carries
\* the display identifier computed from the MAX read earlier
WithUserProductId(d, p, next_user_id) ==
    [p EXCEPT !.db.products =
        {IF row[1] = VInt(p.rowid)
         THEN [row EXCEPT ![ColIndex(d.product_columns, USER_PRODUCT_ID)] =
                              VInt(next_user_id)]
         ELSE row : row \in @}]

\* the second half of add_product for a request that read q: the INSERTs
\* and the commit, on the store as it is now
add_product_finish(d, q) ==
    InsertProductAndInventory(d, "ok",
        WithUserProductId(d, InsertProductRow(d, q.form), q.next_user_id))

\* the first half of add_product: PRAGMA table_info, the definitions,
\* SELECT MAX(user_product_id) and the validation of the form.  A request
\* starts only while the products it and the requests in progress may
\* insert fit the bound.
RaceBegin ==
    \E q \in RaceRequests, form \in RaceForms :
        /\ pending[q].pc # "read"
        /\ db.seq_products
              + Cardinality({x \in RaceRequests : pending[x].pc = "read"})
              < MaxRaceProducts
        /\ pending' = [pending EXCEPT ![q] =
              IF ValidateProductForm(db, form) = "ok"
              THEN [pc |-> "read", form |-> form,
                    next_user_id |-> NextUserProductId(db), status |-> ""]
              ELSE [pc |-> "done", form |-> NoForm, next_user_id |-> 0,
                    status |-> ValidateProductForm(db, form)]]
        /\ UNCHANGED <<db, issued, tenancy>>

\* request q leaves r behind: what it committed and the outcome it reports
RaceCommit(q, r) ==
    /\ db' = r.db
    /\ issued' = IF r.status = "ok"
                  THEN issued \cup {pending[q].next_user_id} ELSE issued
    /\ pending' = [pending EXCEPT ![q] =
          [pc |-> "done", form |-> NoForm,
           next_user_id |-> pending[q].next_user_id, status |-> r.status]]
    /\ UNCHANGED tenancy

RaceFinish ==
    \E q \in RaceRequests :
        /\ pending[q].pc = "read"
        /\ RaceCommit(q, add_product_finish(db, pending[q]))

RaceDeleteProduct ==
    \E id \in 1..MaxRaceProducts :
        /\ db' = delete_product(db, id).db
        /\ UNCHANGED <<issued, tenancy, pending>>

NextRace ==
    \/ RaceBegin
    \/ RaceFinish
    \/ RaceDeleteProduct

\* add_product requests that overlap
SpecRace == Init /\ [][NextRace]_vars

Next ==
    NextLedger \/ NextSchema \/ NextCatalog \/ NextListing \/ NextLegacy
        \/ NextTenants \/ NextRace

Spec == Init /\ [][Next]_vars

(***************************************************************************)
(* Properties.                                                             *)
(***************************************************************************)
\* the entries of the ledger for a (product, location) pair
EntriesAt(inv, product_id, location) ==
    {e \in inv : e.product_id = product_id /\ e.location = location}

\* the display identifier stored in a product row
DisplayIdOf(d, row) == row[ColIndex(d.product_columns, USER_PRODUCT_ID)].n

DisplayIds(d) == {DisplayIdOf(d, r) : r \in d.products}

\* the product ids and quantities the requests of the properties range over
SomeProductIds == 1..MaxProductSeq
SomeQuantities == {0, 1}
SomeLocations  == LocationInputs \cup {<<" ", "A">>}

\* C1: in every reachable state of the ledger there is at most one inventory
\* entry for each (product, location) pair, the empty location included.
C1_OneEntryPerProductLocation ==
    \A e1 \in db.inventory, e2 \in db.inventory :
        (e1.product_id = e2.product_id /\ e1.location = e2.location) => e1 = e2

\* C1 witness: a product has entries at the empty location and at "A", and
\* a request that would put both on one location is refused.
C1_Witness ==
    /\ \E e1 \in db.inventory, e2 \in db.inventory :
          /\ e1.product_id = e2.product_id
          /\ e1.location = <<>>
          /\ e2.location = <<"A">>
    /\ \E q \in InventoryRequests :
          update_inventory(db, q.product_id, q.inventory_id, q.quantity,
                           q.location).status = "DuplicateLocation"

\* C2: after delete_product succeeds on an existing product the ledger holds
\* no entry that references the product.
C2_DeleteRemovesEntries ==
    \A id \in SomeProductIds :
        LET r == delete_product(db, id)
        IN  r.status = "ok" =>
                {e \in r.db.inventory : e.product_id = id} = {}

\* C3: the display identifier given to a new product was never given to an
\* earlier product of the store, deleted products included.
C3_DisplayIdNeverReused ==
    \A form \in ProductForms(db) :
        LET r == add_product(db, form)
        IN  r.status = "ok" =>
                \A row \in r.db.products \ db.products :
                    DisplayIdOf(r.db, row) \notin issued

\* C3 as amended: the display identifier given to a new product is one more
\* than the largest display identifier of the products now in the store (1
\* when there is none); it differs from that of every product in the store.
C3_DisplayIdAboveExisting ==
    \A form \in ProductForms(db) :
        LET r   == add_product(db, form)
            new == r.db.products \ db.products
        IN  r.status = "ok" =>
                /\ Cardinality(new) = 1
                /\ \A row \in new :
                      /\ DisplayIdOf(r.db, row) \notin DisplayIds(db)
                      /\ \A x \in DisplayIds(db) : DisplayIdOf(r.db, row) > x
                      /\ DisplayIdOf(r.db, row) = 1 \/
                         DisplayIdOf(r.db, row) - 1 \in DisplayIds(db)

\* C3 witness: products were created and deleted, one product is in the
\* store and more products have been created than identifiers given out.
C3_Witness ==
    /\ db.products # {}
    /\ Cardinality(issued) < db.seq_products
    /\ DisplayIds(db) \subseteq issued

\* C4: two upserts without inventory_id on the same (product, location), with
\* quantities q1 then q2, leave exactly one entry for the pair, holding q2,
\* and leave the entries of all other pairs as they were.
C4_UpsertTwiceKeepsLatest ==
    \A p \in SomeProductIds, l \in SomeLocations,
       q1 \in SomeQuantities, q2 \in SomeQuantities :
        LET r1 == update_inventory(db, IntToStr(p), <<>>, IntToStr(q1), l)
            r2 == update_inventory(r1.db, IntToStr(p), <<>>, IntToStr(q2), l)
            at == EntriesAt(r2.db.inventory, p, Strip(l))
        IN  (r1.status = "ok" /\ r2.status = "ok") =>
                /\ Cardinality(at) = 1
                /\ \A e \in at : e.quantity = q2
                /\ r2.db.inventory \ at = db.inventory \ EntriesAt(db.inventory, p, Strip(l))

\* C4 witness: the entry at "A" was written by the latest of several upserts
\* (it holds the newest id and ids before it are no longer in the ledger).
C4_Witness ==
    \E e \in db.inventory :
        /\ e.location = <<"A">>
        /\ e.quantity = 1
        /\ e.id = db.seq_inventory
        /\ db.seq_inventory > Cardinality(db.inventory)

\* C5: an upsert with an inventory_id of an entry of the product and a
\* location held by another entry of the same product fails with
\* DuplicateLocation and leaves the store as it was.
C5_IdPathDuplicateLocationRejected ==
    \A e \in db.inventory, f \in db.inventory, q \in SomeQuantities,
       l \in SomeLocations :
        (e # f /\ e.product_id = f.product_id /\ f.location = Strip(l)) =>
            LET r == update_inventory(db, IntToStr(e.product_id), IntToStr(e.id),
                                      IntToStr(q), l)
            IN  r.status = "DuplicateLocation" /\ r.db = db

\* C5 witness: two entries of one product at different locations, so that
\* moving one onto the other's location is a request of the case.
C5_Witness ==
    \E e \in db.inventory, f \in db.inventory :
        /\ e # f
        /\ e.product_id = f.product_id
        /\ update_inventory(db, IntToStr(e.product_id), IntToStr(e.id),
                            <<"1">>, f.location).status = "DuplicateLocation"

\* C9: add_product is atomic: it either adds one product together with one
\* new default entry for it (empty location, quantity 0), the only entry of
\* the product at the empty location, or it changes nothing.
C9_CreateProductAtomic ==
    \A form \in ProductForms(db) :
        LET r   == add_product(db, form)
            new == r.db.products \ db.products
        IN  IF r.status = "ok"
            THEN /\ Cardinality(new) = 1
                 /\ db.products \subseteq r.db.products
                 /\ \A row \in new :
                       LET def == EntriesAt(r.db.inventory, row[1].n, <<>>)
                       IN  /\ Cardinality(def) = 1
                           /\ \A e \in def : e.quantity = 0
                           /\ r.db.inventory = db.inventory \cup def
                           /\ def \cap db.inventory = {}
            ELSE r.db = db

\* C9 witness: an entry at the empty location already references the id the
\* next product will get, so that the second INSERT of add_product fails.
C9_Witness ==
    /\ EntriesAt(db.inventory, db.seq_products + 1, <<>>) # {}
    /\ \E form \in ProductForms(db) : add_product(db, form).status = "Error"

\* the define requests the properties range over: every name input with
\* every type and option input
SomeDefineRequests ==
    {[name |-> n, type |-> t, options |-> o] :
        n \in ColumnNameInputs \cup BadNameInputs \cup {<<"C">>, <<"S">>},
        t \in ColumnTypeInputs, o \in OptionInputs}

\* a define request names an existing column: its name is a legal attribute
\* name, its option list is not empty when the type is 'select', and the
\* sanitised name equals, whatever the case, the name of a column
NamesExistingColumn(d, q) ==
    LET n == Sanitize(Strip(q.name))
    IN  /\ n # <<>>
        /\ n \notin ReservedNames
        /\ q.type = "select" => ParseOptionsInput(Strip(q.options)) # <<>>
        /\ \E i \in DOMAIN d.product_columns : Lower(d.product_columns[i]) = Lower(n)

C7_RenameKeepsRecordsInStep ==
    \A q \in RenameColumnRequests :
        LET r == rename_column(db, q.old, q.new)
            n == Sanitize(Strip(q.new))
        IN  r.status = "ok" =>
                /\ \E c \in db.stock_columns :
                      /\ c.column_name = q.old
                      /\ [c EXCEPT !.column_name = n] \in r.db.stock_columns
                /\ \E i \in DOMAIN db.product_columns :
                      /\ db.product_columns[i] = q.old
                      /\ r.db.product_columns[i] = n
                /\ r.db.products = db.products
                /\ \A v \in db.user_column_visibility :
                      v.column_name = q.old =>
                          [v EXCEPT !.column_name = n] \in r.db.user_column_visibility
                /\ ~HasDefinition(r.db, q.old)
                /\ \A i \in DOMAIN r.db.product_columns : r.db.product_columns[i] # q.old
                /\ \A v \in r.db.user_column_visibility : v.column_name # q.old

\* C8: every request that ends in an error leaves the store exactly as it
\* was before the request; a define or rename that fails leaves no added or
\* renamed column and no partial change of the registry.
C8_ErrorLeavesStoreUnchanged ==
    /\ \A q \in SomeDefineRequests :
          LET r == add_column(db, q.name, q.type, q.options)
          IN  r.status # "ok" => r.db = db
    /\ \A q \in RenameColumnRequests :
          LET r == rename_column(db, q.old, q.new)
          IN  r.status # "ok" => r.db = db
    /\ \A n \in OldNameInputs, o \in OptionInputs :
          LET r == update_column_options(db, n, o)
          IN  r.status # "ok" => r.db = db

\* a form fails validation: a blank name, an unparseable price, a non-empty
\* non-numeric value for a 'number' column, or a non-empty value outside
\* the options of a 'select' column as the listing shows them
FailsValidation(d, form) ==
    \/ Strip(form.name) = <<>>
    \/ ~ParseFloat(form.price).ok
    \/ \E col \in FormColumns(d) :
          LET value == Strip(FormGet(form, col))
          IN  /\ HasDefinition(d, col)
              /\ value # <<>>
              /\ \/ /\ DefinitionOf(d, col).column_type = "number"
                    /\ ~ParseFloat(value).ok
                 \/ /\ DefinitionOf(d, col).column_type = "select"
                    /\ value \notin Range(ListingOptions(DefinitionOf(d, col).options))

\* C10: add_product and update_product write nothing when validation fails:
\* a blank name, an unparseable price, a non-empty non-numeric value for a
\* 'number' column or a non-empty value outside the option set of a 'select'
\* column aborts the request with products and inventory unchanged.
C10_InvalidFormWritesNothing ==
    \A form \in AllProductForms(db) :
        FailsValidation(db, form) =>
            /\ LET r == add_product(db, form)
               IN  /\ r.status # "ok"
                   /\ r.db = db
            /\ \A id \in 1..MaxProductSeq :
                  LET r == update_product(db, id, form)
                  IN  /\ r.status # "ok"
                      /\ r.db = db

\* C10 witness: the catalog holds a product, a 'number' column and a 'select'
\* column, and forms are refused for a non-numeric value and for a value
\* outside the options.
C10_Witness ==
    /\ db.products # {}
    /\ \E form \in AllProductForms(db) :
          add_product(db, form).status = "InvalidNumericValue"
    /\ \E form \in AllProductForms(db), row \in db.products :
          update_product(db, row[1].n, form).status = "InvalidOption"

\* C11: every inventory entry has quantity >= 0: update_inventory with a
\* negative quantity fails with NegativeQuantity on the id-scoped and on the
\* insert-or-replace path and changes nothing, and no operation writes a
\* negative quantity.
C11_QuantityNeverNegative ==
    /\ \A e \in db.inventory : e.quantity >= 0
    /\ \A p \in ProductIdStrs, i \in InventoryIdStrs \cup {NoneStr},
          l \in SomeLocations, q \in {<<"-", "1">>, <<" ", "-", "2">>} :
          LET r == update_inventory(db, p, i, q, l)
          IN  r.status = "NegativeQuantity" /\ r.db = db

\* C11 witness: an entry holding a positive quantity exists, and a request
\* that names it by id with quantity -1 is refused.
C11_Witness ==
    \E e \in db.inventory :
        /\ e.quantity > 0
        /\ update_inventory(db, IntToStr(e.product_id), IntToStr(e.id),
                            <<"-", "1">>, e.location).status = "NegativeQuantity"

\* the location filters the properties range over
SomeLocationFilters == {<<"A">>, <<"a">>, <<"B">>, <<" ", "A">>}

\* the entries of the ledger for a product at a location
EntryIdsAt(d, product_id, location) ==
    {e.id : e \in EntriesAt(d.inventory, product_id, location)}

\* C12: the inventory listing with a location filter L returns exactly the
\* products that have an entry whose location equals L, each once and with
\* only its entries at L; a product with no entry at L is omitted and no
\* placeholder entry is shown, so the listing is empty when no product has
\* an entry at L.
C12_LocationFilterExact ==
    \A f \in SomeLocationFilters :
        LET L    == Strip(f)
            rows == envanter_listesi(db, <<>>, f).rows
        IN  /\ {rows[i].id.n : i \in DOMAIN rows} =
                  {r[1].n : r \in {x \in db.products :
                                      EntriesAt(db.inventory, x[1].n, L) # {}}}
            /\ \A i \in DOMAIN rows, j \in DOMAIN rows :
                  rows[i].id = rows[j].id => i = j
            /\ \A i \in DOMAIN rows :
                  LET shown == rows[i].inventory_entries
                  IN  /\ \A k \in DOMAIN shown :
                            /\ shown[k].location = L
                            /\ shown[k].inventory_id.k = "int"
                      /\ {shown[k].inventory_id.n : k \in DOMAIN shown} =
                            EntryIdsAt(db, rows[i].id.n, L)

\* C12 witness: one product has an entry at "A" and another has none; the
\* listing for "A" shows the first only.
C12_Witness ==
    /\ \E r1 \in db.products, r2 \in db.products :
          /\ EntriesAt(db.inventory, r1[1].n, <<"A">>) # {}
          /\ EntriesAt(db.inventory, r1[1].n, <<>>) # {}
          /\ EntriesAt(db.inventory, r2[1].n, <<"A">>) = {}
    /\ Len(envanter_listesi(db, <<>>, <<"A">>).rows) = 1
    /\ envanter_listesi(db, <<>>, <<"B">>).rows = <<>>

\* the name filters the properties range over (none holds % or _)
SomeNameFilters == {<<"w">>, <<"W">>, <<"a", "w">>, <<"A">>, <<"b">>, <<"x">>,
                    <<" ", "w">>, <<"w", "a">>}

\* f occurs in text as a substring
IsSubstring(f, text) ==
    \E i \in 0..(Len(text) - Len(f)) : SubSeq(text, i + 1, i + Len(f)) = f

\* the ids of the products the listing shows
ListedIds(rows) == {rows[i].id.n : i \in DOMAIN rows}

\* the name stored in a product row
NameOf(d, row) == row[ColIndex(d.product_columns, NAME)].s

\* C13: the inventory listing with a name filter F returns a product if and
\* only if F occurs in the product's name as a case-sensitive substring.
C13_NameFilterCaseSensitive ==
    \A f \in SomeNameFilters :
        ListedIds(envanter_listesi(db, f, <<>>).rows) =
            {r[1].n : r \in {x \in db.products : IsSubstring(Strip(f), NameOf(db, x))}}

\* C13 (amended): the inventory listing with a name filter F that holds
\* neither % nor _ returns a product if and only if F occurs in the
\* product's name as a substring when ASCII letters are compared without
\* regard to case; a product whose name contains F only in another letter
\* case is returned.
C13_NameFilterIgnoresAsciiCase ==
    \A f \in SomeNameFilters :
        ListedIds(envanter_listesi(db, f, <<>>).rows) =
            {r[1].n : r \in {x \in db.products :
                                IsSubstring(Lower(Strip(f)), Lower(NameOf(db, x)))}}

\* C13 witness: the store holds the products "w" and "aW"; the filter "W"
\* returns both, the filter "A" only the second.
C13_Witness ==
    /\ \E r1 \in db.products, r2 \in db.products :
          NameOf(db, r1) = <<"w">> /\ NameOf(db, r2) = <<"a", "W">>
    /\ Cardinality(ListedIds(envanter_listesi(db, <<"W">>, <<>>).rows)) = 2
    /\ Cardinality(ListedIds(envanter_listesi(db, <<"A">>, <<>>).rows)) = 1

\* forms with a good name and price that carry a field for some of the
\* dynamic columns only
PartialProductForms(d) ==
    {[name |-> <<"w">>, price |-> <<"9">>, fields |-> f] :
        f \in UNION {[S -> ValueInputs \cup {<<" ", "r">>}] : S \in SUBSET FormColumns(d)}}

\* what a dynamic column holds after an update that supplied value for it
\* ("" when the form has no field for it): a 'number' column the number, or
\* nothing for the empty value; any other column the trimmed text
ExpectedStored(d, col, value) ==
    IF DefinitionOf(d, col).column_type = "number"
    THEN IF Strip(value) = <<>> THEN VNull
         ELSE VText(RealToStr(ParseFloat(value).val))
    ELSE VText(Strip(value))

\* C14: after a successful update_product every dynamic column of the
\* product holds the value supplied in the request and every dynamic column
\* that was not supplied holds the empty value (no value for 'number'
\* columns), whatever it held before; the internal id and the display
\* identifier of the product are unchanged, and so are the other products.
C14_UpdateReplacesAllDynamicColumns ==
    \A id \in 1..MaxProductSeq, form \in PartialProductForms(db) :
        LET r    == update_product(db, id, form)
            cols == db.product_columns
            upid == ColIndex(cols, USER_PRODUCT_ID)
            old  == {x \in db.products : x[1].n = id}
            new  == {x \in r.db.products : x[1].n = id}
        IN  r.status = "ok" =>
                /\ Cardinality(old) = 1
                /\ Cardinality(new) = 1
                /\ r.db.product_columns = cols
                /\ r.db.products \ new = db.products \ old
                /\ \A o \in old, n \in new :
                      /\ n[1] = o[1]
                      /\ n[upid] = o[upid]
                      /\ \A i \in DynamicPositions(cols) :
                            n[i] = ExpectedStored(db, cols[i],
                                       IF cols[i] \in DOMAIN form.fields
                                       THEN form.fields[cols[i]] ELSE <<>>)

\* C14 witness: a product holds a value in a dynamic column, the catalog has
\* a 'number' column, and an update that supplies no dynamic column succeeds.
C14_Witness ==
    /\ \E c \in db.stock_columns : c.column_type = "number"
    /\ \E row \in db.products, i \in DynamicPositions(db.product_columns) :
          /\ row[i].k = "text"
          /\ row[i].s # <<>>
          /\ update_product(db, row[1].n,
                            [name |-> <<"w">>, price |-> <<"9">>,
                             fields |-> [c \in {} |-> <<>>]]).status = "ok"

\* the column names the visibility properties range over
SomeColumnNames == (OldNameInputs \cup {<<"S">>}) \ ({<<>>} \cup ReservedNames)

\* C15: for a non-reserved column name c, after set(c, b) the store holds
\* exactly one visibility record for c and the listing maps c to b, also
\* when another value was set just before (the latest set wins); every
\* column shown that has no record is reported visible.
C15_VisibilityLatestWins ==
    /\ \A c \in SomeColumnNames, b1 \in VisibleInputs, b2 \in VisibleInputs :
          LET r1 == toggle_column_visibility(db, c, b1)
              r2 == toggle_column_visibility(r1.db, c, b2)
          IN  /\ r1.status = "ok"
              /\ r2.status = "ok"
              /\ Cardinality({v \in r1.db.user_column_visibility : v.column_name = c}) = 1
              /\ Cardinality({v \in r2.db.user_column_visibility : v.column_name = c}) = 1
              /\ column_visibility_preferences(r1.db, SessionUserId)[c] = (b1 = "true")
              /\ column_visibility_preferences(r2.db, SessionUserId)[c] = (b2 = "true")
    /\ \A c \in DisplayColumns(db) :
          (\A v \in db.user_column_visibility : v.column_name # c) =>
              column_visibility_preferences(db, SessionUserId)[c] = TRUE

\* C15 witness: the defined column "c" has been hidden, and the base column
\* name, which has no record, is reported visible.
C15_Witness ==
    /\ HasDefinition(db, <<"c">>)
    /\ <<"c">> \in DisplayColumns(db)
    /\ [user_id |-> SessionUserId, column_name |-> <<"c">>, is_visible |-> FALSE]
          \in db.user_column_visibility
    /\ column_visibility_preferences(db, SessionUserId)[<<"c">>] = FALSE
    /\ column_visibility_preferences(db, SessionUserId)[NAME] = TRUE

\* C16: every reader of a stored option list decodes it the same way: for
\* every stored options text, well-formed or not, the decoder of the product
\* listing and the decoder of add_product / update_product return the same
\* sequence of options.
C16_DecodersAgree ==
    \A c \in db.stock_columns : ListingOptions(c.options) = FormOptions(c.options)

\* the trimmed, non-empty items of a comma-separated text, in their order
TrimmedItems(options_raw) ==
    LET toks == Split(options_raw, ",")
        RECURSIVE Items(_)
        Items(i) == IF i > Len(toks) THEN <<>>
                    ELSE IF Strip(toks[i]) = <<>> THEN Items(i + 1)
                    ELSE <<Strip(toks[i])>> \o Items(i + 1)
    IN  Items(1)

\* C17: after a successful define of a 'select' attribute from options_raw,
\* the definition stored under the sanitised name is of type 'select' and
\* the listing's decoder returns from its stored options exactly the
\* trimmed, non-empty items of options_raw in their original order.
C17_DefineThenDecodeRoundTrip ==
    \A n \in ColumnNameInputs, o \in OptionInputs :
        LET r   == add_column(db, n, "select", o)
            col == Sanitize(Strip(n))
        IN  r.status = "ok" =>
                /\ HasDefinition(r.db, col)
                /\ DefinitionOf(r.db, col).column_type = "select"
                /\ ListingOptions(DefinitionOf(r.db, col).options) = TrimmedItems(o)

\* C18: a stock request that runs in the session of tenant A leaves the
\* store of every other tenant B as it was: its products, inventory,
\* attribute definitions and visibility preferences.  Distinct tenants own
\* distinct files, and the file a session works on is the file of the user
\* who logged in.
C18_TenantIsolation ==
    /\ [](\A a \in users.rows, b \in users.rows :
             a # b => /\ a.stock_db_path # b.stock_db_path
                      /\ a.stock_db_path \in DOMAIN stores)
    /\ [](\A c \in Clients :
             session[c].logged_in =>
                 \E u \in users.rows : /\ u.id = session[c].user_id
                                       /\ u.stock_db_path = session[c].stock_db_path)
    /\ [][\A a \in users.rows, b \in users.rows :
             (a # b /\ actor' = a.id) =>
                 stores'[b.stock_db_path] = stores[b.stock_db_path]]_vars

\* two tenants hold different stores, and the last request was tenant 2's
C18_Witness ==
    /\ Cardinality(users.rows) = 2
    /\ actor = 2
    /\ stores[UserStockDbPath(1)].products # {}
    /\ stores[UserStockDbPath(1)].stock_columns = {}
    /\ stores[UserStockDbPath(2)].products # {}
    /\ stores[UserStockDbPath(2)].stock_columns # {}
    /\ \E v \in stores[UserStockDbPath(2)].user_column_visibility : v.user_id = 2

\* first and then second committed: each succeeded and added one product,
\* and the two products carry the same display identifier
BothCommitWithOneDisplayId(first, second) ==
    /\ first.status = "ok"
    /\ second.status = "ok"
    /\ Cardinality(first.db.products \ db.products) = 1
    /\ Cardinality(second.db.products \ first.db.products) = 1
    /\ first.db.products \subseteq second.db.products
    /\ \A a \in first.db.products \ db.products,
          b \in second.db.products \ first.db.products :
          /\ a[1] # b[1]
          /\ DisplayIdOf(second.db, a) = DisplayIdOf(second.db, b)
          /\ DisplayIdOf(second.db, a) = NextUserProductId(db)

\* C19: when two add_product requests have both read the maximum display
\* identifier that is still the current one and neither has inserted yet,
\* then whichever inserts first, both commit successfully, each adds one
\* product, and the two new products carry the same display identifier.
C19_RaceGivesDuplicateDisplayId ==
    \A q1 \in RaceRequests, q2 \in RaceRequests :
        (/\ q1 # q2
         /\ pending[q1].pc = "read"
         /\ pending[q2].pc = "read"
         /\ pending[q1].next_user_id = NextUserProductId(db)
         /\ pending[q2].next_user_id = NextUserProductId(db))
        => BothCommitWithOneDisplayId(
               add_product_finish(db, pending[q1]),
               add_product_finish(add_product_finish(db, pending[q1]).db, pending[q2]))

\* both requests have committed and the store holds two products with one
\* display identifier
C19_Witness ==
    /\ \A q \in RaceRequests : pending[q].pc = "done" /\ pending[q].status = "ok"
    /\ pending["r1"].next_user_id = pending["r2"].next_user_id
    /\ \E a \in db.products, b \in db.products :
          a[1] # b[1] /\ DisplayIdOf(db, a) = DisplayIdOf(db, b)

\* C20: in every reachable state the products table has its four reserved
\* base columns id, user_product_id, name and price, under those names and
\* in their places: no define, rename, set-options or visibility request
\* renames or removes one of them.
C20_ReservedColumnsKept ==
    /\ Len(db.product_columns) >= Len(BaseColumns)
    /\ \A i \in DOMAIN BaseColumns : db.product_columns[i] = BaseColumns[i]

\* C21: in every reachable state the non-reserved columns of the products
\* table are exactly the names of the attribute definitions: every dynamic
\* column has one definition under its own name, and every definition names
\* a column of the table, after any sequence of define and rename requests.
C21_ColumnsMatchDefinitions ==
    /\ {db.product_columns[i] : i \in DOMAIN db.product_columns} \ ReservedNames
          = {c.column_name : c \in db.stock_columns}
    /\ \A c1 \in db.stock_columns, c2 \in db.stock_columns :
          c1.column_name = c2.column_name => c1 = c2

\* C22: an upsert without inventory_id whose product_id names no product of
\* the store is refused and creates no inventory entry: the inventory is
\* left as it was.
C22_UpsertNeedsExistingProduct ==
    \A p \in ProductIdStrs, q \in QuantityStrs, l \in LocationInputs :
        (ParseInt(p).ok /\ ParseInt(p).val \notin ProductRowids(db)) =>
            LET r == update_inventory(db, p, <<>>, q, l)
            IN  /\ r.status # "ok"
                /\ r.db.inventory = db.inventory

\* C23 as stated: in every reachable state every definition of type
\* 'select' has a non-empty option list.
C23_SelectOptionsNeverEmpty ==
    \A c \in db.stock_columns :
        c.column_type = "select" => ListingOptions(c.options) # <<>>

\* C23: define rejects an empty option set and leaves the store as it was;
\* set_options on a 'select' attribute succeeds also when options_raw holds
\* no item, and then replaces the stored options with the empty list; a
\* 'select' definition has an empty option list only where set_options has
\* stored one.
C23_SelectOptionsEmptyOnlyBySetOptions ==
    /\ \A n \in ColumnNameInputs, o \in OptionInputs :
          TrimmedItems(Strip(o)) = <<>> =>
              LET r == add_column(db, n, "select", o)
              IN  r.status = "EmptyOptionSet" /\ r.db = db
    /\ \A c \in db.stock_columns, o \in OptionInputs :
          c.column_type = "select" =>
              LET r == update_column_options(db, c.column_name, o)
              IN  /\ r.status = "ok"
                  /\ ListingOptions(DefinitionOf(r.db, c.column_name).options)
                        = TrimmedItems(Strip(o))
    /\ \A c \in db.stock_columns :
          (c.column_type = "select" /\ ListingOptions(c.options) = <<>>) =>
              c.options = VText(<<"[", "]">>)

\* a 'select' definition whose options set_options has replaced with the
\* empty list
C23_Witness ==
    \E c \in db.stock_columns :
        /\ c.column_type = "select"
        /\ c.options = VText(<<"[", "]">>)
        /\ ListingOptions(c.options) = <<>>
        /\ update_column_options(db, c.column_name, <<>>).status = "ok"

====
